---- MODULE Spec2Model ----
(***************************************************************************)
(* Model of src/app.py: the in-memory store of joined players (players),   *)
(* the join handler (callback) and the round generator (game).             *)
(*                                                                         *)
(* Python values are modelled as follows.                                  *)
(*  - None / a missing key is the string None.                             *)
(*  - A track dict is a record [id, name, artists]; artists is the         *)
(*    sequence of the artists' names (<<>> when the list is missing or     *)
(*    empty).  A missing track is the record NoTrack.                      *)
(*  - A timestamp string is a record [form, sec, micro]: form "sec" is a   *)
(*    string such as 2024-01-01T00:00:02Z, form "frac" one such as         *)
(*    2024-01-01T00:00:02.5Z, form "other" any other text and form "none"  *)
(*    a missing value.  An instant is counted in microseconds.             *)
(*  - The dict players is a sequence of records in insertion order.        *)
(*  - The flask session is a set of <<key, value>> pairs.                  *)
(*  - round holds the locals of the last /game.  join holds the locals of  *)
(*    the last /callback (recorded by SpecJoins only) and inflight the     *)
(*    /game request that has read `options` and not yet the rest (used by  *)
(*    SpecThreaded only).                                                  *)
(***************************************************************************)
EXTENDS Integers, Sequences, FiniteSets, TLC

VARIABLES players, session, response, round, join, inflight

vars == <<players, session, response, round, join, inflight>>

None == "None"

\* Rounds of a session the model follows (the counter itself is unbounded).
MaxRounds == 2

\* The default of fetch_saved_tracks' limit parameter.
SavedLimit == 2000

----------------------------------------------------------------------------
(* Provider data the handlers are fed with.                                *)

TsNone == [form |-> "none", sec |-> 0, micro |-> 0]
TsOther == [form |-> "other", sec |-> 0, micro |-> 0]
TsSec(s) == [form |-> "sec", sec |-> s, micro |-> 0]
TsFrac(s, m) == [form |-> "frac", sec |-> s, micro |-> m]

NoTrack == [id |-> None, name |-> None, artists |-> <<>>]
Track(i, n, a) == [id |-> i, name |-> n, artists |-> a]

T1 == Track("t1", "n1", <<"a1">>)
T2 == Track(None, "n1", <<"a1">>)
T3 == Track(None, "n2", <<"a1">>)
TNoName == Track("t1", None, <<"a1">>)
TNoArtists == Track("t1", "n1", <<>>)

PlayItem(t, ts) == [track |-> t, played_at |-> ts]
SavedItem(t, ts) == [track |-> t, added_at |-> ts]

\* Play history objects the provider may return.
PlayItems ==
    { PlayItem(T1, TsFrac(1, 0)), PlayItem(T1, TsFrac(2, 0)), PlayItem(T1, TsSec(2)),
      PlayItem(T2, TsFrac(1, 0)), PlayItem(T3, TsFrac(2, 0)),
      PlayItem(T1, TsOther), PlayItem(T1, TsNone),
      PlayItem(TNoName, TsFrac(1, 0)), PlayItem(TNoArtists, TsFrac(1, 0)),
      PlayItem(NoTrack, TsFrac(1, 0)) }

Error == [error |-> TRUE, items |-> <<>>]
Ok(items) == [error |-> FALSE, items |-> items]

\* Answers of the provider to current_user_recently_played.
RecentResponses ==
    { Error, Ok(<<>>) } \cup { Ok(<<e>>) : e \in PlayItems }
    \cup { Ok(<< PlayItem(T1, TsOther), PlayItem(T1, TsFrac(1, 0)) >>),
           Ok(<< PlayItem(TNoName, TsFrac(1, 0)), PlayItem(T1, TsSec(2)) >>) }

\* Saved track objects the provider may return.
SavedItems ==
    { SavedItem(T1, TsFrac(1, 0)), SavedItem(T1, TsSec(2)), SavedItem(T1, TsOther),
      SavedItem(T2, TsFrac(1, 0)) }

\* Answers of the provider to current_user_saved_tracks (one page).
SavedResponses ==
    { Error, Ok(<<>>) } \cup { Ok(<<e>>) : e \in SavedItems }
    \cup { Ok(<< SavedItem(T2, TsFrac(1, 0)), SavedItem(T1, TsFrac(2, 0)) >>) }

\* Answers of the provider to current_user: u2's profile has no display_name.
Profiles ==
    { [id |-> "u1", display_name |-> "Ann"], [id |-> "u2", display_name |-> None] }

----------------------------------------------------------------------------
(* Helper functions of the join.                                           *)

\* fetch_recently_played: the provider's items, or [] on a SpotifyException.
fetch_recently_played(resp) ==
    IF resp.error THEN <<>> ELSE resp.items

\* The filter of fetch_saved_tracks: track, id, name, artists and added_at.
SavedTrackObjectOk(item) ==
    /\ item.track # NoTrack
    /\ item.track.id # None
    /\ item.track.name # None
    /\ item.track.artists # <<>>
    /\ item.added_at.form # "none"

FirstN(s, n) == IF Len(s) <= n THEN s ELSE SubSeq(s, 1, n)

\* fetch_saved_tracks: the valid items of the provider's page, at most limit
\* of them, or [] on a SpotifyException.  A page shorter than page_limit
\* ends the paging, so one page is all the model's provider returns.
fetch_saved_tracks(resp, limit) ==
    IF resp.error THEN <<>> ELSE FirstN(SelectSeq(resp.items, SavedTrackObjectOk), limit)

\* The record of a known id is updated in part: an empty list fetched does
\* not replace the list held.
put_merge(P, rec) ==
    IF \E i \in 1..Len(P) : P[i].id = rec.id
    THEN [i \in 1..Len(P) |->
            IF P[i].id = rec.id
            THEN [rec EXCEPT !.saved_tracks = IF @ = <<>> THEN P[i].saved_tracks ELSE @]
            ELSE P[i]]
    ELSE Append(P, rec)

\* players[user_id] = record: a dict keeps the position of a key it holds.
put(P, rec) ==
    IF \E i \in 1..Len(P) : P[i].id = rec.id
    THEN [i \in 1..Len(P) |-> IF P[i].id = rec.id THEN rec ELSE P[i]]
    ELSE Append(P, rec)

NoResponse ==
    [view |-> "none", question_text |-> "", song_name |-> "", artist_name |-> "",
     options |-> <<>>, answer |-> "", track_id |-> None, question_type |-> ""]

Redirect == [NoResponse EXCEPT !.view = "redirect:index"]

NoRound ==
    [preferred |-> "", attempt_saved_track_question |-> FALSE,
     source_player_id_for_saved |-> None,
     chosen_saved_item |-> <<>>, savers_with_timestamp |-> <<>>,
     ran_recent |-> FALSE, combined_recent |-> <<>>,
     source_player_id_for_recent |-> None, chosen_play_item |-> <<>>,
     picked_globally |-> FALSE, selected_recent_track_obj |-> <<>>,
     plays_of_this_chosen_song |-> <<>>]

\* The locals of /callback when no join has run (or another handler ran last).
NoJoin ==
    [outcome |-> "none", user_id |-> None, display_name |-> None,
     timeline |-> <<>>, saved_tracks |-> <<>>,
     recent_failed |-> FALSE, saved_failed |-> FALSE]

\* No /game request is between its read of `options` and the rest.
Idle == [phase |-> "idle", question_number |-> 0, options |-> <<>>,
         players_at_start |-> <<>>, joins |-> 0]

----------------------------------------------------------------------------
(* Round generation: the pieces of game().                                 *)

\* datetime.strptime(s, fmt) for the two formats the code uses; <<>> stands
\* for the ValueError, <<t>> for the instant parsed.
strptime(s, fmt) ==
    IF fmt = "%Y-%m-%dT%H:%M:%SZ" /\ s.form = "sec" THEN << s.sec * 1000000 >>
    ELSE IF fmt = "%Y-%m-%dT%H:%M:%S.%fZ" /\ s.form = "frac"
         THEN << s.sec * 1000000 + s.micro >>
         ELSE <<>>

\* The nested try of the saved-track resolution: the plain format first,
\* the fractional one on a ValueError.
ParseAddedAt(s) ==
    IF strptime(s, "%Y-%m-%dT%H:%M:%SZ") # <<>>
    THEN strptime(s, "%Y-%m-%dT%H:%M:%SZ")
    ELSE strptime(s, "%Y-%m-%dT%H:%M:%S.%fZ")

\* The single try of combined_recent: the fractional format only.
ParsePlayedAt(s) == strptime(s, "%Y-%m-%dT%H:%M:%S.%fZ")

\* session['question_number'] after the first three lines of game().
NextQuestionNumber(sess) ==
    LET cur == IF \E kv \in sess : kv[1] = "question_number"
               THEN (CHOOSE kv \in sess : kv[1] = "question_number")[2]
               ELSE 0
    IN cur + 1

\* The parity test the other way round.
attempt_saved_track_question_odd(question_number) == question_number % 2 = 1

attempt_saved_track_question(question_number) == question_number % 2 = 0

options(P) == [i \in 1..Len(P) |-> P[i].display_name]

\* The last of the elements with the greatest key.
MaxIndex_last(keys) ==
    CHOOSE i \in 1..Len(keys) :
        /\ \A j \in 1..Len(keys) : keys[j] <= keys[i]
        /\ \A j \in (i + 1)..Len(keys) : keys[j] < keys[i]

\* max(list, key=...): the first of the elements with the greatest key.
MaxIndex(keys) ==
    CHOOSE i \in 1..Len(keys) :
        /\ \A j \in 1..Len(keys) : keys[j] <= keys[i]
        /\ \A j \in 1..(i - 1) : keys[j] < keys[i]

players_with_saved_tracks(P) == { i \in 1..Len(P) : P[i].saved_tracks # <<>> }

\* The validation of the chosen saved item.
ChosenSavedItemOk(item) ==
    /\ item.track # NoTrack
    /\ item.track.id # None
    /\ item.track.name # None
    /\ item.track.artists # <<>>
    /\ item.added_at.form # "none"

\* The entries one player adds to savers_with_timestamp.
SaversOfPlayer(pdata, track_id) ==
    LET Counts(item) ==
            /\ item.track # NoTrack
            /\ item.track.id = track_id
            /\ item.added_at.form # "none"
            /\ ParseAddedAt(item.added_at) # <<>>
        sel == SelectSeq(pdata.saved_tracks, Counts)
    IN [k \in 1..Len(sel) |->
            [dt |-> ParseAddedAt(sel[k].added_at)[1], name |-> pdata.display_name]]

RECURSIVE SaversUpTo(_, _, _)
SaversUpTo(P, n, track_id) ==
    IF n = 0 THEN <<>>
    ELSE SaversUpTo(P, n - 1, track_id) \o SaversOfPlayer(P[n], track_id)

savers_with_timestamp(P, track_id) == SaversUpTo(P, Len(P), track_id)

\* The entries one player adds to combined_recent.
RecentOfPlayer(pdata) ==
    LET Counts(item) ==
            /\ item.track # NoTrack
            /\ item.track.name # None
            /\ item.track.artists # <<>>
            /\ item.played_at.form # "none"
            /\ ParsePlayedAt(item.played_at) # <<>>
        sel == SelectSeq(pdata.timeline, Counts)
    IN [k \in 1..Len(sel) |->
            [track_name |-> sel[k].track.name,
             artist_name |-> sel[k].track.artists[1],
             player_id |-> pdata.id,
             played_ts |-> ParsePlayedAt(sel[k].played_at)[1],
             track_id |-> sel[k].track.id,
             full_track_obj |-> sel[k].track]]

RECURSIVE RecentUpTo(_, _)
RecentUpTo(P, n) ==
    IF n = 0 THEN <<>> ELSE RecentUpTo(P, n - 1) \o RecentOfPlayer(P[n])

\* One try around the whole loop: a ValueError leaves the list empty.
combined_recent_one_try(P) ==
    IF \E i \in 1..Len(P) : \E k \in 1..Len(P[i].timeline) :
          /\ P[i].timeline[k].track # NoTrack
          /\ P[i].timeline[k].track.name # None
          /\ P[i].timeline[k].track.artists # <<>>
          /\ P[i].timeline[k].played_at.form # "none"
          /\ ParsePlayedAt(P[i].timeline[k].played_at) = <<>>
    THEN <<>>
    ELSE RecentUpTo(P, Len(P))

combined_recent(P) == RecentUpTo(P, Len(P))

players_with_recent_history(P) == { i \in 1..Len(P) : P[i].timeline # <<>> }

\* The validation of the chosen play item (no look at played_at).
ChosenPlayItemOk(item) ==
    /\ item.track # NoTrack
    /\ item.track.name # None
    /\ item.track.artists # <<>>

plays_of_this_chosen_song(combined, track_id) ==
    SelectSeq(combined, LAMBDA play : play.track_id = track_id)

\* players[pid]["display_name"]
DisplayNameOf(P, pid) == P[CHOOSE i \in 1..Len(P) : P[i].id = pid].display_name

\* The early return left out: selected_recent_track_obj["name"] raises.
NoGameData_raises(opts) ==
    [view |-> "500", question_text |-> "", song_name |-> "", artist_name |-> "",
     options |-> <<>>, answer |-> "", track_id |-> None, question_type |-> ""]

\* The render_template call of the early return: no song could be selected.
NoGameData(opts) ==
    [view |-> "game.html",
     question_text |-> "Error: No game data available to ask a question.",
     song_name |-> "", artist_name |-> "", options |-> opts, answer |-> "",
     track_id |-> None, question_type |-> "error"]

\* No fallback when nobody is found to have saved the song.
SavedAttemptStands_no_fallback(valid, savers) == valid

\* attempt_saved_track_question after the saved-track branch: the song was
\* validated and savers_with_timestamp is not empty.
SavedAttemptStands(valid, savers) == valid /\ savers # <<>>

\* The saved-track attempt (the body of `if attempt_saved_track_question`)
\* for one outcome of the two random.choice calls: player src, item k.
SavedAttempt(P, src, k) ==
    LET item == P[src].saved_tracks[k]
        valid == ChosenSavedItemOk(item)
        savers == IF valid THEN savers_with_timestamp(P, item.track.id) ELSE <<>>
        best == savers[MaxIndex([j \in 1..Len(savers) |-> savers[j].dt])]
    IN [attempt_saved_track_question |-> SavedAttemptStands(valid, savers),
        source_player_id_for_saved |-> P[src].id,
        chosen_saved_item |-> <<item>>,
        savers_with_timestamp |-> savers,
        song_name |-> IF valid THEN item.track.name ELSE "N/A",
        artist_name |-> IF valid THEN item.track.artists[1] ELSE "N/A",
        track_id |-> IF valid THEN item.track.id ELSE None,
        answer_name |-> IF valid /\ savers # <<>> THEN best.name ELSE "N/A"]

\* The locals when the saved-track attempt selects nothing (no player has
\* saved tracks) or is not made at all.
NoSavedAttempt ==
    [attempt_saved_track_question |-> FALSE,
     source_player_id_for_saved |-> None, chosen_saved_item |-> <<>>,
     savers_with_timestamp |-> <<>>, song_name |-> "N/A", artist_name |-> "N/A",
     track_id |-> None, answer_name |-> "N/A"]

SavedAttempts(P) ==
    IF players_with_saved_tracks(P) = {} THEN { NoSavedAttempt }
    ELSE UNION { { SavedAttempt(P, src, k) : k \in 1..Len(P[src].saved_tracks) } :
                   src \in players_with_saved_tracks(P) }

\* The end of game() when the saved-track attempt stands.
SavedOutcome(P, qn, sa) ==
    [response |->
        [view |-> "game.html",
         question_text |-> "Who most recently added this song to their saved tracks?",
         song_name |-> sa.song_name, artist_name |-> sa.artist_name,
         options |-> options(P), answer |-> sa.answer_name,
         track_id |-> sa.track_id, question_type |-> "saved_track"],
     round |->
        [preferred |-> "saved_track", attempt_saved_track_question |-> TRUE,
         source_player_id_for_saved |-> sa.source_player_id_for_saved,
         chosen_saved_item |-> sa.chosen_saved_item,
         savers_with_timestamp |-> sa.savers_with_timestamp,
         ran_recent |-> FALSE, combined_recent |-> <<>>,
         source_player_id_for_recent |-> None, chosen_play_item |-> <<>>,
         picked_globally |-> FALSE, selected_recent_track_obj |-> <<>>,
         plays_of_this_chosen_song |-> <<>>]]

\* The outcomes of the two random.choice calls of the fair selection: the
\* source player and the item chosen (<<>> when no player has a timeline).
ChosenPlayItems(P) ==
    IF players_with_recent_history(P) = {} THEN { [source |-> None, item |-> <<>>] }
    ELSE UNION { { [source |-> P[src].id, item |-> << P[src].timeline[k] >>] :
                     k \in 1..Len(P[src].timeline) } :
                   src \in players_with_recent_history(P) }

\* The tentative type of an abandoned saved-track attempt is kept.
RecentQuestionType_kept(previous) ==
    IF previous = "" THEN "recent_listener" ELSE previous

\* question_type once the recent-listener branch is entered; previous is the
\* value the local had before ("" or the tentative "saved_track").
RecentQuestionType(previous) == "recent_listener"

\* track_id = obj.get("id") or track_id
RecentTrackId_kept(previous, obj) == IF obj.id = None THEN previous ELSE obj.id

\* track_id of the chosen recent song; previous is the value the local had
\* before (None, or the id of an abandoned saved-track song).
RecentTrackId(previous, obj) == obj.id

\* With no play of the chosen song, the latest play of the whole pool.
RecentAnswer_from_pool(P, combined, plays) ==
    IF plays # <<>>
    THEN DisplayNameOf(P,
            plays[MaxIndex([j \in 1..Len(plays) |-> plays[j].played_ts])].player_id)
    ELSE IF combined # <<>>
         THEN DisplayNameOf(P,
                combined[MaxIndex([j \in 1..Len(combined) |->
                                      combined[j].played_ts])].player_id)
         ELSE "N/A (Data consistency issue)"

\* answer_name of the recent-listener branch.
RecentAnswer(P, combined, plays) ==
    IF plays # <<>>
    THEN DisplayNameOf(P,
            plays[MaxIndex([j \in 1..Len(plays) |-> plays[j].played_ts])].player_id)
    ELSE "N/A (Data consistency issue)"

\* The recent-listener branch once a track object is selected; pick holds
\* the outcome of the fair selection.
RecentResolved(P, pref, sa, combined, pick, globally, obj) ==
    LET track_id == RecentTrackId(sa.track_id, obj)
        plays == plays_of_this_chosen_song(combined, track_id)
    IN [response |->
          [view |-> "game.html",
           question_text |-> "Who has most recently listened to:",
           song_name |-> obj.name, artist_name |-> obj.artists[1],
           options |-> options(P),
           answer |-> RecentAnswer(P, combined, plays),
           track_id |-> track_id,
           question_type |->
              RecentQuestionType(IF pref = "saved_track" THEN "saved_track" ELSE "")],
        round |->
          [preferred |-> pref, attempt_saved_track_question |-> FALSE,
           source_player_id_for_saved |-> sa.source_player_id_for_saved,
           chosen_saved_item |-> sa.chosen_saved_item,
           savers_with_timestamp |-> sa.savers_with_timestamp,
           ran_recent |-> TRUE, combined_recent |-> combined,
           source_player_id_for_recent |-> pick.source,
           chosen_play_item |-> pick.item, picked_globally |-> globally,
           selected_recent_track_obj |-> <<obj>>,
           plays_of_this_chosen_song |-> plays]]

\* The recent-listener branch when no track object is selected.
RecentFailed(P, pref, sa, combined, pick) ==
    [response |-> NoGameData(options(P)),
     round |->
        [preferred |-> pref, attempt_saved_track_question |-> FALSE,
         source_player_id_for_saved |-> sa.source_player_id_for_saved,
         chosen_saved_item |-> sa.chosen_saved_item,
         savers_with_timestamp |-> sa.savers_with_timestamp,
         ran_recent |-> TRUE, combined_recent |-> combined,
         source_player_id_for_recent |-> pick.source,
         chosen_play_item |-> pick.item, picked_globally |-> FALSE,
         selected_recent_track_obj |-> <<>>, plays_of_this_chosen_song |-> <<>>]]

\* The body of `if not attempt_saved_track_question`, for every outcome of
\* its random.choice calls.
RecentOutcomes(P, pref, sa) ==
    LET combined == combined_recent(P)
        For(pick) ==
            IF pick.item # <<>> /\ ChosenPlayItemOk(pick.item[1])
            THEN { RecentResolved(P, pref, sa, combined, pick, FALSE,
                                  pick.item[1].track) }
            ELSE IF combined # <<>>
                 THEN { RecentResolved(P, pref, sa, combined, pick, TRUE,
                                       combined[g].full_track_obj) :
                          g \in 1..Len(combined) }
                 ELSE { RecentFailed(P, pref, sa, combined, pick) }
    IN UNION { For(pick) : pick \in ChosenPlayItems(P) }

\* Every result game() can give for the store P and the counter value qn.
RoundOutcomes(P, qn) ==
    IF attempt_saved_track_question(qn)
    THEN UNION { IF sa.attempt_saved_track_question
                 THEN { SavedOutcome(P, qn, sa) }
                 ELSE RecentOutcomes(P, "saved_track", sa) :
                   sa \in SavedAttempts(P) }
    ELSE RecentOutcomes(P, "recent_listener", NoSavedAttempt)

----------------------------------------------------------------------------
(* The state machine.                                                      *)

Init ==
    /\ players = <<>>
    /\ session = {}
    /\ response = NoResponse
    /\ round = NoRound
    /\ join = NoJoin
    /\ inflight = Idle

\* A join counted against the /game request in flight, if there is one.
JoinSeen(f) ==
    IF f.phase = "read_options" /\ f.joins < 2 THEN [f EXCEPT !.joins = @ + 1] ELSE f

\* /callback when the token exchange or current_user raises (or sp.me() does
\* inside the except block of a fetch helper): nothing is stored and the user
\* is sent back to the index page.
callback_failed ==
    /\ response' = Redirect
    /\ round' = NoRound
    /\ UNCHANGED <<players, session, join, inflight>>

\* The try block of /callback for one set of answers of the provider: the
\* record is built from the two fetch helpers and stored under the user's id.
Join(profile, recent, saved) ==
    LET user_id == profile.id
        display_name == IF profile.display_name = None THEN user_id
                        ELSE profile.display_name
        timeline == fetch_recently_played(recent)
        saved_tracks == fetch_saved_tracks(saved, SavedLimit)
    IN /\ players' = put(players,
                [id |-> user_id, display_name |-> display_name,
                 timeline |-> timeline, saved_tracks |-> saved_tracks])
       /\ response' = Redirect
       /\ round' = NoRound
       /\ inflight' = JoinSeen(inflight)
       /\ UNCHANGED session

\* The locals of that try block, as SpecJoins records them.
JoinLocals(profile, recent, saved) ==
    [outcome |-> "stored", user_id |-> profile.id,
     display_name |-> IF profile.display_name = None THEN profile.id
                      ELSE profile.display_name,
     timeline |-> fetch_recently_played(recent),
     saved_tracks |-> fetch_saved_tracks(saved, SavedLimit),
     recent_failed |-> recent.error, saved_failed |-> saved.error]

\* /callback when the profile is fetched.
callback ==
    \E profile \in Profiles, recent \in RecentResponses, saved \in SavedResponses :
        Join(profile, recent, saved) /\ UNCHANGED join

\* /game
\* The messages game() queues with flash(), in the order of the code, read
\* off the locals of the round.
flashed(rnd) ==
    LET saved == rnd.preferred = "saved_track"
        sampled == rnd.chosen_saved_item # <<>>
        valid == sampled /\ ChosenSavedItemOk(rnd.chosen_saved_item[1])
    IN (IF saved /\ sampled /\ ~valid THEN << "incomplete saved track" >> ELSE <<>>)
       \o (IF saved /\ ~sampled THEN << "no saved tracks" >> ELSE <<>>)
       \o (IF saved /\ valid /\ rnd.savers_with_timestamp = <<>>
           THEN << "no saver found" >> ELSE <<>>)
       \o (IF rnd.ran_recent /\ rnd.picked_globally
           THEN << "picking globally" >> ELSE <<>>)
       \o (IF rnd.ran_recent /\ rnd.selected_recent_track_obj = <<>>
           THEN << "no game data" >> ELSE <<>>)
       \o (IF /\ rnd.ran_recent /\ rnd.selected_recent_track_obj # <<>>
              /\ rnd.plays_of_this_chosen_song = <<>>
           THEN << "no recent play data" >> ELSE <<>>)

\* flask.flash: the messages are appended to the session's queue.
flash(sess, msgs) ==
    IF msgs = <<>> THEN sess
    ELSE LET queued == IF \E kv \in sess : kv[1] = "_flashes"
                       THEN (CHOOSE kv \in sess : kv[1] = "_flashes")[2]
                       ELSE <<>>
         IN { kv \in sess : kv[1] # "_flashes" } \cup { <<"_flashes", queued \o msgs>> }

\* Rendering a page shows the queued messages and takes them off the session.
render_template(sess) == { kv \in sess : kv[1] # "_flashes" }

\* A round that takes the play it asks about off its owner's timeline.
game_pops_chosen_play ==
    LET question_number == NextQuestionNumber(session)
        Without(tl, item) ==
            LET k == CHOOSE j \in 1..Len(tl) :
                        tl[j] = item /\ \A h \in 1..(j - 1) : tl[h] # item
            IN SubSeq(tl, 1, k - 1) \o SubSeq(tl, k + 1, Len(tl))
    IN
    /\ question_number <= MaxRounds
    /\ \E o \in RoundOutcomes(players, question_number) :
          /\ response' = o.response
          /\ round' = o.round
          /\ session' = render_template(flash({ <<"question_number", question_number>> },
                                              flashed(o.round)))
          /\ players' = [i \in 1..Len(players) |->
                IF /\ players[i].id = o.round.source_player_id_for_recent
                   /\ o.round.chosen_play_item # <<>>
                THEN [players[i] EXCEPT
                        !.timeline = Without(@, o.round.chosen_play_item[1])]
                ELSE players[i]]
    /\ UNCHANGED <<join, inflight>>

game ==
    LET question_number == NextQuestionNumber(session) IN
    /\ question_number <= MaxRounds
    /\ \E o \in RoundOutcomes(players, question_number) :
          /\ response' = o.response
          /\ round' = o.round
          /\ session' = render_template(flash({ <<"question_number", question_number>> },
                                              flashed(o.round)))
    /\ UNCHANGED <<players, join, inflight>>

Next == callback \/ callback_failed \/ game

Spec == Init /\ [][Next]_vars

----------------------------------------------------------------------------
(* The joins alone, with the locals of each /callback recorded in join.    *)

callback_recorded ==
    \E profile \in Profiles, recent \in RecentResponses, saved \in SavedResponses :
        Join(profile, recent, saved) /\ join' = JoinLocals(profile, recent, saved)

callback_failed_recorded ==
    /\ response' = Redirect
    /\ round' = NoRound
    /\ join' = [NoJoin EXCEPT !.outcome = "failed"]
    /\ UNCHANGED <<players, session, inflight>>

NextJoins == callback_recorded \/ callback_failed_recorded

SpecJoins == Init /\ [][NextJoins]_vars

----------------------------------------------------------------------------
(* The same handlers under the threaded development server: /game reads    *)
(* `players` several times and /callback may store a record in between.    *)
(* The request is cut once, after the read of `options`.                   *)

\* Answers of the provider in the threaded runs.
ThreadedRecentResponses ==
    { Ok(<<>>), Ok(<< PlayItem(T1, TsFrac(1, 0)) >>), Ok(<< PlayItem(T1, TsFrac(2, 0)) >>) }
ThreadedSavedResponses ==
    { Ok(<<>>), Ok(<< SavedItem(T1, TsFrac(1, 0)) >>) }

callback_threaded ==
    \E profile \in Profiles, recent \in ThreadedRecentResponses,
       saved \in ThreadedSavedResponses :
        Join(profile, recent, saved) /\ UNCHANGED join

\* /game up to the read of `options`.
game_start ==
    LET question_number == NextQuestionNumber(session) IN
    /\ inflight.phase # "read_options"
    /\ question_number <= MaxRounds
    /\ session' = { <<"question_number", question_number>> }
    /\ inflight' = [phase |-> "read_options", question_number |-> question_number,
                    options |-> options(players), players_at_start |-> players,
                    joins |-> 0]
    /\ response' = NoResponse
    /\ round' = NoRound
    /\ UNCHANGED <<players, join>>

\* The rest of /game: every later read of `players` sees the store as it is
\* now; `options` is the list read at the start.
game_end ==
    /\ inflight.phase = "read_options"
    /\ \E o \in RoundOutcomes(players, inflight.question_number) :
          /\ response' = [o.response EXCEPT !.options = inflight.options]
          /\ round' = o.round
          /\ session' = render_template(flash(session, flashed(o.round)))
    /\ inflight' = [inflight EXCEPT !.phase = "done"]
    /\ UNCHANGED <<players, join>>

NextThreaded == callback_threaded \/ callback_failed \/ game_start \/ game_end

SpecThreaded == Init /\ [][NextThreaded]_vars

----------------------------------------------------------------------------
(* Vocabulary of the properties: eligibility and song identity as the      *)
(* specification words them, independent of the operators above.           *)

GameRendered == response.view = "game.html"

QuestionNumber == (CHOOSE kv \in session : kv[1] = "question_number")[2]

\* The instant a timestamp string denotes, in either supported format.
SupportedInstant(ts) ==
    IF ts.form \in {"sec", "frac"} THEN << ts.sec * 1000000 + ts.micro >> ELSE <<>>

EligiblePlay(e) ==
    /\ e.track # NoTrack
    /\ e.track.name # None
    /\ e.track.artists # <<>>
    /\ SupportedInstant(e.played_at) # <<>>

EligibleSave(e) ==
    /\ e.track # NoTrack
    /\ e.track.id # None
    /\ e.track.name # None
    /\ e.track.artists # <<>>
    /\ SupportedInstant(e.added_at) # <<>>

\* Positions <<player, index>> of the play events and of the save events.
PlayPos ==
    UNION { { <<i, k>> : k \in 1..Len(players[i].timeline) } : i \in 1..Len(players) }
SavePos ==
    UNION { { <<i, k>> : k \in 1..Len(players[i].saved_tracks) } : i \in 1..Len(players) }

PlayAt(p) == players[p[1]].timeline[p[2]]
SaveAt(p) == players[p[1]].saved_tracks[p[2]]

\* The identifying key: the track id when the chosen song has one, else the
\* pair of track name and first artist.
IsChosenSong(t) ==
    IF response.track_id # None THEN t.id = response.track_id
    ELSE t.name = response.song_name /\ t.artists[1] = response.artist_name

SongRendered == GameRendered /\ response.question_type \in {"saved_track", "recent_listener"}

AnswerResolved ==
    SongRendered /\ response.answer \notin {"N/A", "N/A (Data consistency issue)"}

----------------------------------------------------------------------------
(* The claims.                                                             *)

\* C1: whenever a round has a resolved answer, the answer is the display name
\* of a participant owning an eligible event of the chosen song whose
\* timestamp is the greatest among all eligible events of that song in the
\* store.
C1_AnswerIsMostRecent ==
    AnswerResolved =>
        IF response.question_type = "saved_track"
        THEN \E p \in SavePos :
                /\ players[p[1]].display_name = response.answer
                /\ EligibleSave(SaveAt(p)) /\ IsChosenSong(SaveAt(p).track)
                /\ \A q \in SavePos :
                      EligibleSave(SaveAt(q)) /\ IsChosenSong(SaveAt(q).track)
                      => SupportedInstant(SaveAt(q).added_at)[1]
                           <= SupportedInstant(SaveAt(p).added_at)[1]
        ELSE \E p \in PlayPos :
                /\ players[p[1]].display_name = response.answer
                /\ EligiblePlay(PlayAt(p)) /\ IsChosenSong(PlayAt(p).track)
                /\ \A q \in PlayPos :
                      EligiblePlay(PlayAt(q)) /\ IsChosenSong(PlayAt(q).track)
                      => SupportedInstant(PlayAt(q).played_at)[1]
                           <= SupportedInstant(PlayAt(p).played_at)[1]

\* C2: the session's counter starts absent, every round adds exactly one to
\* it, and the round prefers SavedTrack when its counter value is even and
\* RecentListener when it is odd (so the first round prefers RecentListener).
C2_CounterAndParity ==
    /\ session = {}
    /\ [][response'.view = "game.html" =>
            LET before == IF session = {} THEN 0 ELSE QuestionNumber IN
            /\ session' = { <<"question_number", before + 1>> }
            /\ round'.preferred = IF (before + 1) % 2 = 0 THEN "saved_track"
                                  ELSE "recent_listener"]_vars

\* A second round of the session, preferring SavedTrack.
C2_Witness ==
    /\ GameRendered
    /\ session = { <<"question_number", 2>> }
    /\ round.preferred = "saved_track"

\* C3: a round that prefers SavedTrack and abandons it runs RecentListener,
\* and when some participant has an eligible play event it returns a
\* recent_listener question whose song is taken from play history.
C3_FallbackGivesRecentQuestion ==
    ( /\ GameRendered
      /\ round.preferred = "saved_track"
      /\ ~round.attempt_saved_track_question
      /\ \E p \in PlayPos : EligiblePlay(PlayAt(p)) )
    => /\ round.ran_recent
       /\ response.question_type = "recent_listener"
       /\ \E p \in PlayPos :
             /\ PlayAt(p).track.name = response.song_name
             /\ PlayAt(p).track.id = response.track_id
             /\ PlayAt(p).track.artists # <<>>
             /\ PlayAt(p).track.artists[1] = response.artist_name

\* C4: a round that prefers RecentListener, in a store with no eligible play
\* event but with an eligible saved track, returns a saved-track question.
C4_FallbackToSavedTrack ==
    ( /\ GameRendered
      /\ round.preferred = "recent_listener"
      /\ \A p \in PlayPos : ~EligiblePlay(PlayAt(p))
      /\ \E p \in SavePos : EligibleSave(SaveAt(p)) )
    => response.question_type = "saved_track"

\* C5: a round generated from a store with no participant gives the error
\* outcome, with no song and no options, for odd and for even counter values.
C5_EmptyStoreGivesError ==
    (players = <<>> /\ response.view \notin {"none", "redirect:index"})
    => /\ GameRendered
       /\ response.question_type = "error"
       /\ response.song_name = "" /\ response.artist_name = ""
       /\ response.track_id = None
       /\ response.options = <<>>

\* A round of even counter value generated from the empty store.
C5_Witness ==
    /\ players = <<>>
    /\ GameRendered
    /\ session = { <<"question_number", 2>> }
    /\ round.preferred = "saved_track"
    /\ response.question_type = "error"

\* C6: when the chosen song has no track id, the qualifying set holds exactly
\* the eligible play events of the chosen song's name and artist.
C6_IdlessQualifyingSet ==
    ( /\ GameRendered
      /\ round.selected_recent_track_obj # <<>>
      /\ response.track_id = None )
    => LET same == { p \in PlayPos :
                       /\ EligiblePlay(PlayAt(p))
                       /\ PlayAt(p).track.name = response.song_name
                       /\ PlayAt(p).track.artists[1] = response.artist_name }
           plays == round.plays_of_this_chosen_song
       IN /\ \A j \in 1..Len(plays) :
                /\ plays[j].track_name = response.song_name
                /\ plays[j].artist_name = response.artist_name
          /\ Len(plays) = Cardinality(same)

\* C7: the question song of a round is taken from an eligible entry only.
C7_SongFromEligibleEntry ==
    SongRendered =>
        /\ ( response.question_type = "saved_track"
             => EligibleSave(round.chosen_saved_item[1]) )
        /\ ( response.question_type = "recent_listener" /\ ~round.picked_globally
             => EligiblePlay(round.chosen_play_item[1]) )
        /\ ( response.question_type = "recent_listener" /\ round.picked_globally
             => \E p \in PlayPos :
                   /\ EligiblePlay(PlayAt(p))
                   /\ PlayAt(p).track = round.selected_recent_track_obj[1] )

\* C8: an event of the chosen song whose timestamp is in either supported
\* format takes part in the resolution, with the instant it denotes.
C8_BothFormatsResolve ==
    SongRendered =>
        IF response.question_type = "saved_track"
        THEN \A p \in SavePos :
                EligibleSave(SaveAt(p)) /\ SaveAt(p).track.id = response.track_id
                => \E j \in 1..Len(round.savers_with_timestamp) :
                      /\ round.savers_with_timestamp[j].name = players[p[1]].display_name
                      /\ round.savers_with_timestamp[j].dt
                           = SupportedInstant(SaveAt(p).added_at)[1]
        ELSE \A p \in PlayPos :
                EligiblePlay(PlayAt(p)) /\ PlayAt(p).track.id = response.track_id
                => \E j \in 1..Len(round.plays_of_this_chosen_song) :
                      /\ round.plays_of_this_chosen_song[j].player_id = players[p[1]].id
                      /\ round.plays_of_this_chosen_song[j].played_ts
                           = SupportedInstant(PlayAt(p).played_at)[1]

\* The store without the events whose timestamp is in no supported format.
WithoutUnsupported(P) ==
    [i \in 1..Len(P) |->
        [P[i] EXCEPT
            !.timeline = SelectSeq(@, LAMBDA e : e.played_at.form # "other"),
            !.saved_tracks = SelectSeq(@, LAMBDA e : e.added_at.form # "other")]]

\* C9: an event whose timestamp is in an unsupported format is skipped alone:
\* the global pool and the qualifying set are those of the store without
\* such events, and the round returns a result.
C9_UnsupportedSkippedAlone ==
    /\ round.ran_recent =>
          /\ GameRendered
          /\ round.combined_recent = combined_recent(WithoutUnsupported(players))
          /\ round.plays_of_this_chosen_song
               = plays_of_this_chosen_song(combined_recent(WithoutUnsupported(players)),
                                           response.track_id)
    /\ (round.chosen_saved_item # <<>> /\ ChosenSavedItemOk(round.chosen_saved_item[1])) =>
          /\ GameRendered
          /\ round.savers_with_timestamp
               = savers_with_timestamp(WithoutUnsupported(players),
                                       round.chosen_saved_item[1].track.id)

\* A round whose pool skipped an unsupported timestamp and kept another event
\* of the same timeline.
C9_Witness ==
    /\ GameRendered
    /\ round.ran_recent
    /\ round.combined_recent # <<>>
    /\ \E p \in PlayPos :
          /\ PlayAt(p).played_at.form = "other"
          /\ \E j \in 1..Len(round.combined_recent) :
                round.combined_recent[j].player_id = players[p[1]].id

\* C10: with a single participant holding a single eligible history entry,
\* the round's song is that entry's and the answer is that participant.
C10_SingleEntry ==
    ( /\ GameRendered
      /\ Len(players) = 1
      /\ players[1].saved_tracks = <<>>
      /\ Len(players[1].timeline) = 1
      /\ EligiblePlay(players[1].timeline[1]) )
    => /\ response.song_name = players[1].timeline[1].track.name
       /\ response.artist_name = players[1].timeline[1].track.artists[1]
       /\ response.track_id = players[1].timeline[1].track.id
       /\ response.answer = players[1].display_name

\* C11: a round whose song is chosen and whose qualifying set is empty still
\* returns that song, with a non-error question_type and an "N/A" marker as
\* the answer, which names no participant.
C11_UnresolvedKeepsSong ==
    ( /\ GameRendered
      /\ round.selected_recent_track_obj # <<>>
      /\ round.plays_of_this_chosen_song = <<>> )
    => /\ response.song_name = round.selected_recent_track_obj[1].name
       /\ response.artist_name = round.selected_recent_track_obj[1].artists[1]
       /\ response.track_id = round.selected_recent_track_obj[1].id
       /\ response.question_type = "recent_listener"
       /\ response.answer \in {"N/A", "N/A (Data consistency issue)"}
       /\ \A i \in 1..Len(players) : players[i].display_name # response.answer

\* An unresolved round in a store whose pool holds plays of other songs.
C11_Witness ==
    /\ GameRendered
    /\ round.selected_recent_track_obj # <<>>
    /\ round.plays_of_this_chosen_song = <<>>
    /\ round.combined_recent # <<>>
    /\ response.answer = "N/A (Data consistency issue)"

\* C12: question_type is one of recent_listener, saved_track and error, and
\* names the strategy that selected the song and resolved the answer:
\* saved_track only when both come from saved-track data, recent_listener
\* with the recent-listener text whenever the recent strategy gave the song,
\* also after a fallback.
C12_QuestionTypeNamesStrategy ==
    GameRendered =>
        /\ response.question_type \in {"recent_listener", "saved_track", "error"}
        /\ response.question_type = "saved_track" =>
              /\ ~round.ran_recent
              /\ round.chosen_saved_item # <<>>
              /\ response.track_id = round.chosen_saved_item[1].track.id
              /\ response.song_name = round.chosen_saved_item[1].track.name
              /\ \E j \in 1..Len(round.savers_with_timestamp) :
                    round.savers_with_timestamp[j].name = response.answer
              /\ response.question_text
                   = "Who most recently added this song to their saved tracks?"
        /\ response.question_type = "recent_listener" =>
              /\ round.ran_recent
              /\ round.selected_recent_track_obj # <<>>
              /\ response.track_id = round.selected_recent_track_obj[1].id
              /\ response.song_name = round.selected_recent_track_obj[1].name
              /\ response.question_text = "Who has most recently listened to:"
        /\ response.question_type = "error" =>
              /\ round.ran_recent
              /\ round.selected_recent_track_obj = <<>>
        /\ (round.ran_recent /\ round.selected_recent_track_obj # <<>>) =>
              response.question_type = "recent_listener"

\* A recent_listener round reached by falling back from a sampled saved song.
C12_Witness ==
    /\ GameRendered
    /\ round.preferred = "saved_track"
    /\ round.chosen_saved_item # <<>>
    /\ round.ran_recent
    /\ response.question_type = "recent_listener"

\* The participant ids the store holds.
StoredIds(P) == { P[i].id : i \in 1..Len(P) }

\* C13: the store holds one record per participant id; a join leaves in the
\* store, under its id, exactly the record it built (display name, timeline
\* and saved tracks of that one join) and leaves every other record as it was.
C13_WholesaleReplace ==
    /\ [](\A i, j \in 1..Len(players) : players[i].id = players[j].id => i = j)
    /\ [][join'.outcome = "stored" =>
            /\ StoredIds(players') = StoredIds(players) \cup {join'.user_id}
            /\ Len(players') = Cardinality(StoredIds(players'))
            /\ \E i \in 1..Len(players') :
                  players'[i] = [id |-> join'.user_id,
                                 display_name |-> join'.display_name,
                                 timeline |-> join'.timeline,
                                 saved_tracks |-> join'.saved_tracks]
            /\ \A i \in 1..Len(players) :
                  players[i].id # join'.user_id => players'[i] = players[i]]_vars

\* The first participant has joined again after the second one joined, with
\* nothing saved this time.
C13_Witness ==
    /\ Len(players) = 2
    /\ join.outcome = "stored"
    /\ join.user_id = players[1].id
    /\ players[1].saved_tracks = <<>>
    /\ players[1].timeline # <<>>

\* C14: a join during which a fetch of the provider fails leaves the store
\* as it was.
C14_FailedFetchLeavesStore ==
    [][(join'.outcome = "failed" \/ join'.recent_failed \/ join'.saved_failed)
         => players' = players]_vars

\* The results a round of counter value qn can give when every read of the
\* store sees P.
ResultsFrom(P, qn) == { o.response : o \in RoundOutcomes(P, qn) }

\* C15: when one join runs while a round is generated, the round's result is
\* one the store gives as it was before the join or as it is after it.
C15_RoundSeesOneSnapshot ==
    (GameRendered /\ inflight.phase = "done" /\ inflight.joins <= 1)
    => response \in ResultsFrom(inflight.players_at_start, inflight.question_number)
                    \cup ResultsFrom(players, inflight.question_number)

\* The positions of the events the resolution of the rendered round counts:
\* saved items of the chosen track id whose added_at parses, or plays of the
\* chosen track id that entered the pool.
Counted ==
    IF response.question_type = "saved_track"
    THEN { <<p, SaveAt(p).added_at.sec * 1000000 + SaveAt(p).added_at.micro>> :
             p \in { q \in SavePos :
                       /\ SaveAt(q).track.id = response.track_id
                       /\ SaveAt(q).added_at.form \in {"sec", "frac"} } }
    ELSE { <<p, PlayAt(p).played_at.sec * 1000000 + PlayAt(p).played_at.micro>> :
             p \in { q \in PlayPos :
                       /\ PlayAt(q).track # NoTrack
                       /\ PlayAt(q).track.name # None
                       /\ PlayAt(q).track.artists # <<>>
                       /\ PlayAt(q).track.id = response.track_id
                       /\ PlayAt(q).played_at.form = "frac" } }

\* Those of the greatest timestamp.
Latest == { c \in Counted : \A d \in Counted : d[2] <= c[2] }

\* Iteration order: participants in store order, then list order.
Before(p, q) == p[1] < q[1] \/ (p[1] = q[1] /\ p[2] <= q[2])

\* C16: the answer is a function of the store, its order and the chosen song:
\* it is the owner of the first, in iteration order, of the counted events of
\* the greatest timestamp.
C16_FirstOfLatestWins ==
    AnswerResolved =>
        \E c \in Latest :
            /\ \A d \in Latest : Before(c[1], d[1])
            /\ response.answer = players[c[1][1]].display_name

\* A resolved round in which two participants hold the latest timestamp.
C16_Witness ==
    /\ AnswerResolved
    /\ \E c, d \in Latest :
          /\ c[1][1] < d[1][1]
          /\ response.answer = players[c[1][1]].display_name
          /\ response.answer # players[d[1][1]].display_name

\* The participants holding an eligible play event, or save event.
WithEligiblePlay ==
    { players[i].id : i \in { j \in 1..Len(players) :
          \E k \in 1..Len(players[j].timeline) : EligiblePlay(players[j].timeline[k]) } }
WithEligibleSave ==
    { players[i].id : i \in { j \in 1..Len(players) :
          \E k \in 1..Len(players[j].saved_tracks) :
              EligibleSave(players[j].saved_tracks[k]) } }

\* C17: the source participant of a round is one of those holding an eligible
\* entry of the kind asked for, each of them can be the source, and the item
\* chosen is an entry of the source's list.
C17_SourceAmongEligible ==
    GameRendered =>
        /\ round.ran_recent =>
              /\ { players[i].id : i \in players_with_recent_history(players) }
                   = WithEligiblePlay
              /\ round.source_player_id_for_recent # None =>
                    /\ round.source_player_id_for_recent \in WithEligiblePlay
                    /\ \E p \in PlayPos :
                          /\ players[p[1]].id = round.source_player_id_for_recent
                          /\ PlayAt(p) = round.chosen_play_item[1]
        /\ round.preferred = "saved_track" =>
              /\ { players[i].id : i \in players_with_saved_tracks(players) }
                   = WithEligibleSave
              /\ round.source_player_id_for_saved # None =>
                    /\ round.source_player_id_for_saved \in WithEligibleSave
                    /\ \E p \in SavePos :
                          /\ players[p[1]].id = round.source_player_id_for_saved
                          /\ SaveAt(p) = round.chosen_saved_item[1]

\* C18: when no participant holds an eligible play event, a round that ends
\* in the recent-listener strategy gives the error outcome and shows no song.
C18_EmptyPoolGivesError ==
    (GameRendered /\ round.ran_recent /\ \A p \in PlayPos : ~EligiblePlay(PlayAt(p)))
    => /\ response.question_type = "error"
       /\ response.song_name = ""
       /\ response.artist_name = ""
       /\ response.track_id = None

NotAvailable == {"N/A", "N/A (Data consistency issue)"}

\* C19: a saved_track round has a resolved answer, the display name of a
\* participant who saved the chosen track id with a timestamp that parses;
\* an "N/A" answer appears with question_type recent_listener only.
C19_SavedTrackAlwaysResolved ==
    GameRendered =>
        /\ response.question_type = "saved_track" =>
              /\ response.answer \notin NotAvailable
              /\ \E p \in SavePos :
                    /\ players[p[1]].display_name = response.answer
                    /\ SaveAt(p).track.id = response.track_id
                    /\ SupportedInstant(SaveAt(p).added_at) # <<>>
        /\ response.answer \in NotAvailable =>
              response.question_type = "recent_listener"

\* A saved_track round in a store that also holds a save whose timestamp does
\* not parse.
C19_Witness ==
    /\ GameRendered
    /\ response.question_type = "saved_track"
    /\ \E p \in SavePos : SaveAt(p).added_at.form = "other"
    /\ \E i \in 1..Len(players) : players[i].display_name = response.answer

\* C20: when a saved-track attempt is abandoned after its song was sampled,
\* the result is one the recent-listener strategy gives with no saved-track
\* attempt before it (or the error outcome).
C20_AbandonedAttemptLeavesNoTrace ==
    (GameRendered /\ round.chosen_saved_item # <<>> /\ round.ran_recent)
    => /\ response \in { o.response :
                           o \in RecentOutcomes(players, "recent_listener", NoSavedAttempt) }
       /\ response.question_type \in {"recent_listener", "error"}
       /\ response.question_type = "error" =>
             /\ response.song_name = "" /\ response.artist_name = ""
             /\ response.track_id = None /\ response.answer = ""
       /\ response.question_type = "recent_listener" =>
             /\ response.song_name = round.selected_recent_track_obj[1].name
             /\ response.artist_name = round.selected_recent_track_obj[1].artists[1]
             /\ response.track_id = round.selected_recent_track_obj[1].id
             /\ response.question_text = "Who has most recently listened to:"

\* A saved song was sampled and abandoned, and the round shows a recent song
\* of another track id.
C20_Witness ==
    /\ GameRendered
    /\ round.chosen_saved_item # <<>>
    /\ round.ran_recent
    /\ response.question_type = "recent_listener"
    /\ response.track_id # round.chosen_saved_item[1].track.id

====
